---- MODULE Spec2Model ----
(***************************************************************************)
(* Model of the mako-code backend's function repository                    *)
(* (src/backend/functions/utils.py), its HTTP wrappers and the static      *)
(* safety validator (src/backend/main.py).                                 *)
(*                                                                         *)
(* The repository artifact user_defined.py is modelled as text: a sequence *)
(* of lines, each line a record [k, n, w, ind]                             *)
(*    k    the kind of the line (what the Python tokenizer sees in it)     *)
(*    n    the identifier the line carries (function / module / body id)   *)
(*    w    the words of a free-text line                                   *)
(*    ind  the indentation level of the line                               *)
(* Python's parser (ast.parse), ast.walk, ast.get_docstring, the regular   *)
(* expressions and the line slicing of the source are operators over such  *)
(* line sequences.                                                         *)
(***************************************************************************)
EXTENDS Naturals, Sequences, FiniteSets, TLC

\* ------------------------------------------------------------------------
\* Lines of text
\* ------------------------------------------------------------------------
L(k, n, w, ind) == [k |-> k, n |-> n, w |-> w, ind |-> ind]

\* "# User-defined functions"
Hdr == L("comment", "", <<>>, 0)
\* ""
Blank == L("blank", "", <<>>, 0)
\* "import m" (indented ind levels)
Imp(m, ind) == L("import", m, <<>>, ind)
\* "def n(x):"
Def(n, ind) == L("def", n, <<>>, ind)
\* a simple statement such as "return b"
Stmt(b, ind) == L("stmt", b, <<>>, ind)
\* a one-line docstring statement: '''w'''
Doc(w, ind) == L("doc", "", w, ind)
\* a line holding only the three quotes that open or close a string
Q3 == L("q3", "", <<>>, 0)
\* "@n", a decorator
Decor(n, ind) == L("decor", n, <<>>, ind)
\* free text, the words w separated by blanks; no words is the empty line
Text(w) == IF w = <<>> THEN Blank ELSE L("text", "", w, 0)

\* The words that, alone on a line, are a Python expression statement, and
\* the words that end in a colon: followed by one word they are an
\* annotated name (Language: sql).
ExprWords == {"Helper", "f()", "g()"}
ColonWords == {"Tags:", "Language:"}
IsPyExpr(w) ==
    \/ Len(w) = 1 /\ w[1] \in ExprWords
    \/ Len(w) = 2 /\ w[1] \in ColonWords /\ w[2] \notin ColonWords \cup {","}

\* ------------------------------------------------------------------------
\* ast.parse over a sequence of lines
\*
\* The parser state:
\*   ok     no SyntaxError / IndentationError so far
\*   stack  the open blocks, outermost first: [ind, fn], fn the index in
\*          nodes of the FunctionDef whose body the block is (0: module)
\*   pend   "body" after a def line (an indented block must follow),
\*          "def" after a decorator, else "none"
\*   pfn    the FunctionDef waiting for its body
\*   instr  inside a triple-quoted string
\*   nodes  the Import and FunctionDef nodes met so far, in line order:
\*          [t, name, lineno, end, depth, ind, doc]
\* ------------------------------------------------------------------------
ParseInit ==
    [ok |-> TRUE, stack |-> << [ind |-> 0, fn |-> 0] >>, pend |-> "none",
     pfn |-> 0, instr |-> FALSE, nodes |-> <<>>]

Fail(st) == [st EXCEPT !.ok = FALSE]

\* Drop the blocks that a line indented ind closes.
RECURSIVE Dedent(_, _)
Dedent(stack, ind) ==
    IF Len(stack) > 1 /\ stack[Len(stack)].ind > ind
    THEN Dedent(SubSeq(stack, 1, Len(stack) - 1), ind)
    ELSE stack

\* end_lineno of every FunctionDef whose block is open becomes i.
MarkEnd(nodes, stack, i) ==
    [j \in 1..Len(nodes) |->
        IF \E b \in 1..Len(stack) : stack[b].fn = j
        THEN [nodes[j] EXCEPT !.end = i]
        ELSE nodes[j]]

\* A statement on line i, in the innermost block of stack; first: it is the
\* first statement of the body of FunctionDef pfn.
Statement(st, stack, i, ln, first) ==
    LET marked == MarkEnd(st.nodes, stack, i)
        base == [st EXCEPT !.stack = stack, !.nodes = marked, !.pend = "none"]
        depth == Len(stack)
    IN  CASE ln.k = "import" ->
                [base EXCEPT !.nodes = Append(marked,
                    [t |-> "import", name |-> ln.n, lineno |-> i, end |-> i,
                     depth |-> depth, ind |-> ln.ind, doc |-> <<>>])]
          [] ln.k = "stmt" -> base
          [] ln.k = "doc" ->
                IF first
                THEN [base EXCEPT !.nodes[st.pfn].doc = ln.w]
                ELSE base
          [] ln.k = "text" -> IF IsPyExpr(ln.w) THEN base ELSE Fail(st)
          [] ln.k = "q3" -> [base EXCEPT !.instr = TRUE]
          [] ln.k = "def" ->
                [base EXCEPT !.nodes = Append(marked,
                    [t |-> "def", name |-> ln.n, lineno |-> i, end |-> i,
                     depth |-> depth, ind |-> ln.ind, doc |-> <<>>]),
                    !.pend = "body", !.pfn = Len(marked) + 1]
          [] ln.k = "decor" -> [base EXCEPT !.pend = "def"]
          [] OTHER -> Fail(st)

ParseLine(st, i, ln) ==
    IF ~st.ok THEN st
    ELSE IF st.instr
    THEN (IF ln.k = "q3" THEN [st EXCEPT !.instr = FALSE] ELSE st)
    ELSE IF ln.k \in {"blank", "comment"} THEN st
    ELSE IF st.pend = "body"
    THEN \* expected an indented block
         IF ln.ind > st.nodes[st.pfn].ind
         THEN Statement(st, Append(st.stack, [ind |-> ln.ind, fn |-> st.pfn]),
                        i, ln, TRUE)
         ELSE Fail(st)
    ELSE LET stack == Dedent(st.stack, ln.ind)
         IN  IF stack[Len(stack)].ind # ln.ind
             THEN Fail(st)   \* unexpected indent / inconsistent dedent
             ELSE IF st.pend = "def" /\ ln.k \notin {"def", "decor"}
             THEN Fail(st)
             ELSE Statement(st, stack, i, ln, FALSE)

RECURSIVE ParseFrom(_, _, _)
ParseFrom(lines, i, st) ==
    IF i > Len(lines) THEN st
    ELSE ParseFrom(lines, i + 1, ParseLine(st, i, lines[i]))

\* ast.parse(content): [ok, nodes]; ok = FALSE is the SyntaxError.
ast_parse(lines) ==
    LET st == ParseFrom(lines, 1, ParseInit)
    IN  [ok |-> st.ok /\ ~st.instr /\ st.pend = "none", nodes |-> st.nodes]

\* ast.walk(tree) is breadth first: nodes by depth, then by position.
RECURSIVE WalkFrom(_, _)
WalkFrom(nodes, d) ==
    IF \A i \in 1..Len(nodes) : nodes[i].depth < d THEN <<>>
    ELSE SelectSeq(nodes, LAMBDA nd : nd.depth = d) \o WalkFrom(nodes, d + 1)

ast_walk(nodes) == WalkFrom(nodes, 1)

FunctionDefs(nodes) == SelectSeq(ast_walk(nodes), LAMBDA nd : nd.t = "def")
ImportNodes(nodes) == SelectSeq(ast_walk(nodes), LAMBDA nd : nd.t = "import")

\* content.splitlines()[start_line - 1:end_line]
Span(lines, nd) == SubSeq(lines, nd.lineno, nd.end)

\* ------------------------------------------------------------------------
\* The function repository (functions/utils.py)
\*
\* The artifact user_defined.py: [exists, lines].
\* ------------------------------------------------------------------------
Absent == [exists |-> FALSE, lines |-> <<>>]
File(lines) == [exists |-> TRUE, lines |-> lines]

\* Names the regular expression ^[a-zA-Z_][a-zA-Z0-9_]*$ matches, among the
\* names the model submits.
Identifiers == {"f", "g"}

validate_function_name(name) ==
    IF name = "" THEN [ok |-> FALSE, err |-> "invalid_name"]
    ELSE IF name \notin Identifiers THEN [ok |-> FALSE, err |-> "invalid_name"]
    ELSE [ok |-> TRUE, err |-> ""]

\* re.search(rf"def\s+{name}\s*\(", line): a def line of that name, or text
\* in which the word def is followed by the name and a parenthesis.
DefPattern(ln, name) ==
    \/ ln.k = "def" /\ ln.n = name
    \/ /\ ln.k \in {"text", "doc"}
       /\ \E i \in 1..(Len(ln.w) - 1) :
            ln.w[i] = "def" /\ ln.w[i + 1] = name \o "()"

check_function_exists(file, name) ==
    IF ~file.exists THEN FALSE
    ELSE \E i \in 1..Len(file.lines) : DefPattern(file.lines[i], name)

\* The statements of the model's vocabulary that parse also compile, so
\* compile(code) raises nothing that ast.parse(code) has not raised.
validate_python_function(code) ==
    LET tree == ast_parse(code)
    IN  IF ~tree.ok THEN [ok |-> FALSE, err |-> "validation"]
        ELSE IF FunctionDefs(tree.nodes) = <<>>
        THEN [ok |-> FALSE, err |-> "validation"]
        ELSE [ok |-> TRUE, err |-> ""]

\* ", ".join(tags), as words
RECURSIVE JoinComma(_)
JoinComma(tags) ==
    IF tags = <<>> THEN <<>>
    ELSE IF Len(tags) = 1 THEN tags
    ELSE <<Head(tags), ",">> \o JoinComma(Tail(tags))

\* [tag.strip() for tag in rest.split(',') if tag.strip()], the tags being
\* single words
SplitComma(words) == SelectSeq(words, LAMBDA x : x # ",")

\* f'"""\n{description}\n\nTags: {", ".join(tags)}\nLanguage: {language}\n"""'
metadata_docstring(description, tags, language) ==
    << Q3, Text(description), Blank, Text(<<"Tags:">> \o JoinComma(tags)),
       Text(<<"Language:", language>>), Q3 >>

\* line.strip().startswith(('import ', 'from '))
StartsWithImport(ln) ==
    \/ ln.k = "import"
    \/ ln.k = "text" /\ Len(ln.w) > 1 /\ ln.w[1] \in {"import", "from"}

\* '\n'.join of the texts in a sequence, as lines
RECURSIVE Flatten(_)
Flatten(ss) == IF ss = <<>> THEN <<>> ELSE Head(ss) \o Flatten(Tail(ss))

\* Listings of S that name one of its elements twice: what a merge that
\* keeps a repeated import would write.
WithRepeats(S) ==
    IF S = {} THEN {<<>>}
    ELSE {o \in [1..Cardinality(S) + 1 -> S] :
            \A x \in S : \E i \in 1..Cardinality(S) + 1 : o[i] = x}

\* The sequences that list each element of the set S once: the orders
\* list(set(...)) can produce.
Orderings(S) ==
    {o \in [1..Cardinality(S) -> S] :
        \A i, j \in 1..Cardinality(S) : i # j => o[i] # o[j]}

Range(s) == {s[i] : i \in 1..Len(s)}

\* Each kept function as save_function re-emits it: its docstring, bare,
\* then its source lines.
RECURSIVE SaveUnits(_)
SaveUnits(functions) ==
    IF functions = <<>> THEN <<>>
    ELSE LET fn == Head(functions)
         IN  (IF fn.doc # <<>> THEN <<Blank, Text(fn.doc)>> ELSE <<>>)
             \o <<Blank>> \o fn.code \o SaveUnits(Tail(functions))

\* The (docstring, code) pairs of the FunctionDef nodes the loop keeps: all
\* of them but, when drop holds, those called name.
KeptFunctions(content, nodes, name, drop) ==
    LET defs == SelectSeq(FunctionDefs(nodes),
                          LAMBDA nd : ~(nd.name = name /\ drop))
    IN  [i \in 1..Len(defs) |->
            [doc |-> defs[i].doc, code |-> Span(content, defs[i])]]

ImportTexts(content, nodes) ==
    LET imps == ImportNodes(nodes)
    IN  [i \in 1..Len(imps) |-> Span(content, imps[i])]

\* save_function, lines 154-225: the new text of the artifact, from its
\* current text and the call's arguments. [ok, lines, imports]; ok = FALSE
\* when ast.parse raises. imports is the set whose order list(set()) picks.
SaveMerge(content, name, code, description, tags, language, is_update) ==
    LET tree == ast_parse(content)
        new_tree == ast_parse(code)
        functions == KeptFunctions(content, tree.nodes, name, is_update)
        imports == ImportTexts(content, tree.nodes)
        new_imports == ImportTexts(code, new_tree.nodes)
        filtered == SelectSeq(code, LAMBDA ln : ~StartsWithImport(ln))
    IN  [ok |-> tree.ok /\ new_tree.ok,
         imports |-> Range(imports \o new_imports),
         functions |-> functions,
         tail |-> <<Blank>>
                  \o metadata_docstring(description, tags, language)
                  \o (IF filtered = <<>> THEN <<Blank>> ELSE filtered)]

\* lines 210-225: new_content for one order of the import set
SaveContent(m, all_imports) ==
    <<Hdr, Blank>>
    \o (IF all_imports # <<>> THEN Flatten(all_imports) \o <<Blank>> ELSE <<>>)
    \o SaveUnits(m.functions)
    \o m.tail

\* lines 121-137: the checks before the artifact is touched; "" passes.
SaveChecks(file, name, code, language, is_update) ==
    LET exists == check_function_exists(file, name)
    IN  IF ~validate_function_name(name).ok THEN "invalid_name"
        ELSE IF exists /\ ~is_update THEN "exists"
        ELSE IF ~exists /\ is_update THEN "not_found"
        ELSE IF language = "python" /\ ~validate_python_function(code).ok
        THEN "validation"
        ELSE ""

\* lines 146-148: create or clean up the file
SaveCreate(file) ==
    IF ~file.exists \/ file.lines = <<>> THEN File(<<Hdr, Blank>>) ELSE file

\* list_saved_functions, lines 257-296: one entry per FunctionDef node.
\* The docstring of the model's functions is one line of words.
ListEntry(content, nd) ==
    LET w == nd.doc
    IN  [name |-> nd.name,
         description |-> w,
         tags |-> IF w # <<>> /\ w[1] = "Tags:" THEN SplitComma(Tail(w))
                  ELSE <<>>,
         language |-> IF w # <<>> /\ w[1] # "Tags:" /\ w[1] = "Language:"
                      THEN Tail(w) ELSE <<"python">>,
         code |-> Span(content, nd)]

\* list_saved_functions: [raised, functions]; raised: an exception was
\* caught (line 299) and [] returned in place of the listing.
list_saved_functions(file) ==
    IF ~file.exists THEN [raised |-> FALSE, functions |-> <<>>]
    ELSE LET tree == ast_parse(file.lines)
             defs == FunctionDefs(tree.nodes)
         IN  IF ~tree.ok THEN [raised |-> TRUE, functions |-> <<>>]
             ELSE [raised |-> FALSE,
                   functions |-> [i \in 1..Len(defs) |->
                                    ListEntry(file.lines, defs[i])]]

\* Each kept function as delete_function re-emits it (lines 346-349).
RECURSIVE DeleteUnits(_)
DeleteUnits(functions) ==
    IF functions = <<>> THEN <<>>
    ELSE LET fn == Head(functions)
         IN  (IF fn.doc # <<>> THEN <<Q3, Text(fn.doc), Q3>> ELSE <<>>)
             \o fn.code \o <<Blank>> \o DeleteUnits(Tail(functions))

\* new_content.rstrip() + '\n': no blank lines at the end
RECURSIVE RStrip(_)
RStrip(lines) ==
    IF lines # <<>> /\ lines[Len(lines)].k = "blank"
    THEN RStrip(SubSeq(lines, 1, Len(lines) - 1))
    ELSE lines

\* delete_function, lines 308-349, up to the write: [err, lines]
DeleteMerge(file, name) ==
    IF ~file.exists THEN [err |-> "file_not_found", lines |-> <<>>]
    ELSE LET content == file.lines
             tree == ast_parse(content)
             found == \E i \in 1..Len(tree.nodes) :
                        tree.nodes[i].t = "def" /\ tree.nodes[i].name = name
             functions == KeptFunctions(content, tree.nodes, name, TRUE)
         IN  IF ~tree.ok THEN [err |-> "failed", lines |-> <<>>]
             ELSE IF ~found THEN [err |-> "not_found", lines |-> <<>>]
             ELSE [err |-> "",
                   lines |-> RStrip(<<Hdr, Blank>> \o DeleteUnits(functions))]

\* ------------------------------------------------------------------------
\* The query directive parser (functions/sql_parser.py)
\*
\* A query text is the sequence of its tokens, one blank between two
\* tokens. SqlDecorator is the text @sql, SaveMarker the text -- save_as:,
\* Newline a line break, and every other token a word (\w+). The regular
\* expressions of parse_sql_code are computed token by token: \s* and \s+
\* run over blanks and line breaks alike.
\* ------------------------------------------------------------------------
SqlDecorator == "@sql"
SaveMarker == "-- save_as:"
Newline == "\n"

\* The words of the submitted queries.
SqlWords == {"FROM", "join", "orders", "items"}

\* FROM|JOIN under re.IGNORECASE
FromJoin == {"FROM", "from", "JOIN", "join"}

\* The first position from i on that holds no line break (\s* from i).
RECURSIVE SkipSpace(_, _)
SkipSpace(s, i) ==
    IF i <= Len(s) /\ s[i] = Newline THEN SkipSpace(s, i + 1) ELSE i

\* line 16-17: re.search(r'--\s*save_as:\s*(\w+)', code), None as ""
RECURSIVE SaveMatch(_, _)
SaveMatch(s, i) ==
    IF i > Len(s) THEN ""
    ELSE LET j == SkipSpace(s, i + 1)
         IN  IF s[i] = SaveMarker /\ j <= Len(s) /\ s[j] \in SqlWords
             THEN s[j]
             ELSE SaveMatch(s, i + 1)

\* line 20: re.sub(r'@sql\s*', '', code)
RECURSIVE RemoveDecorator(_)
RemoveDecorator(s) ==
    IF s = <<>> THEN <<>>
    ELSE IF Head(s) = SqlDecorator
    THEN RemoveDecorator(SubSeq(s, SkipSpace(s, 2), Len(s)))
    ELSE <<Head(s)>> \o RemoveDecorator(Tail(s))

\* line 21: re.sub(r'--\s*save_as:\s*\w+\s*\n', '', sql_query)
RECURSIVE RemoveDirective(_)
RemoveDirective(s) ==
    IF s = <<>> THEN <<>>
    ELSE LET j == SkipSpace(s, 2)
         IN  IF /\ Head(s) = SaveMarker
                /\ j < Len(s)
                /\ s[j] \in SqlWords
                /\ s[j + 1] = Newline
             THEN RemoveDirective(SubSeq(s, SkipSpace(s, j + 1), Len(s)))
             ELSE <<Head(s)>> \o RemoveDirective(Tail(s))

\* line 21: .strip()
RECURSIVE Strip(_)
Strip(s) ==
    IF s = <<>> THEN <<>>
    ELSE IF Head(s) = Newline THEN Strip(Tail(s))
    ELSE IF s[Len(s)] = Newline THEN Strip(SubSeq(s, 1, Len(s) - 1))
    ELSE s

\* lines 25-26: re.findall(r'\b(?:FROM|JOIN)\s+(\w+)', sql_query,
\* re.IGNORECASE), matches taken left to right without overlap
RECURSIVE FindTables(_, _)
FindTables(s, i) ==
    IF i > Len(s) THEN {}
    ELSE LET j == SkipSpace(s, i + 1)
         IN  IF s[i] \in FromJoin /\ j <= Len(s) /\ s[j] \in SqlWords
             THEN {s[j]} \cup FindTables(s, j + 1)
             ELSE FindTables(s, i + 1)

\* parse_sql_code(code) -> (sql_query, save_as, dataset_names)
parse_sql_code(code) ==
    LET sql_query == Strip(RemoveDirective(RemoveDecorator(code)))
    IN  [sql_query |-> sql_query,
         save_as |-> SaveMatch(code, 1),
         dataset_names |-> FindTables(sql_query, 1)]

\* validate_datasets stopping at the first missing name.
validate_datasets_first(dataset_names, datasets) ==
    LET missing_datasets == {n \in dataset_names : ~datasets[n].exists}
    IN  [is_valid |-> missing_datasets = {},
         missing |-> IF missing_datasets = {} THEN {}
                     ELSE {CHOOSE n \in missing_datasets : TRUE}]

\* validate_datasets(dataset_names, dataset_dir) -> (is_valid, missing);
\* a dataset is in the directory when the catalog holds content for it.
validate_datasets(dataset_names, datasets) ==
    LET missing_datasets == {n \in dataset_names : ~datasets[n].exists}
    IN  [is_valid |-> missing_datasets = {}, missing |-> missing_datasets]

\* ------------------------------------------------------------------------
\* Inputs
\* ------------------------------------------------------------------------
\* "2x" and "" are the names validate_function_name rejects.
Names == Identifiers \cup {"2x"}

\* def f(x):            def f(x):           def g(x):
\*     x = b1               x = b2              x = b1
CodeF1 == << Def("f", 0), Stmt("b1", 1) >>
CodeF2 == << Def("f", 0), Stmt("b2", 1) >>
CodeG == << Def("g", 0), Stmt("b1", 1) >>
\* def f(x):
\*     '''Helper'''
\*     x = b1
CodeFDoc == << Def("f", 0), Doc(<<"Helper">>, 1), Stmt("b1", 1) >>
\* def g(x):
\*     '''sums x'''
\*     x = b1
CodeGDoc == << Def("g", 0), Doc(<<"sums", "x">>, 1), Stmt("b1", 1) >>
\* import math
\* def g(x):
\*     x = b2
CodeGImp == << Imp("math", 0), Def("g", 0), Stmt("b2", 1) >>
\* import os
\* def f(x):
\*     x = b1
CodeFImp == << Imp("os", 0), Def("f", 0), Stmt("b1", 1) >>
\* def g(x):
\*     def f(y):
\*         x = b1
\*     x = b2
CodeNested == << Def("g", 0), Def("f", 1), Stmt("b1", 2), Stmt("b2", 1) >>
\* SELECT 1
CodeSql == << Text(<<"SELECT", "1">>) >>
\* x = b1
CodeNoFn == << Stmt("b1", 0) >>

Codes == {CodeF1, CodeF2, CodeG, CodeFDoc, CodeGDoc, CodeGImp, CodeFImp,
          CodeNested, CodeSql, CodeNoFn}

\* description and tags of a save request
Metas == { [description |-> <<"sums", "x">>, tags |-> <<"a", "b">>],
           [description |-> <<"replaces", "def", "g()">>, tags |-> <<>>] }

Languages == {"python", "sql"}

\* What open(path, 'w') and f.write(new_content) can do to the file: write
\* it all, or fail once the file is truncated.
IoOutcomes == {"ok", "truncated"}

\* Number of saveFunction / deleteFunction calls in a run.
MaxOps == 3
\* Number of those in which the write fails.
MaxIoFailures == 1

\* ------------------------------------------------------------------------
\* State
\* ------------------------------------------------------------------------
VARIABLES
    file,      \* the artifact user_defined.py
    pre,       \* the artifact as the last call found it
    last,      \* the last call and the response of its endpoint
    args,      \* code, description and tags of the last call, if a
               \* successful save
    live,      \* names created by a successful save(is_update = false) and
               \* not deleted by a successful delete since
    ops,       \* save / delete calls so far
    iofails,   \* failed writes so far
    procs,     \* the save_function calls in progress when calls overlap
    vsrc,      \* the source submitted to is_safe_code
    vres,      \* what is_safe_code returned
    tmp,       \* the linter's temporary file exists
    qtext,     \* the query text handed to parse_sql_code
    qres,      \* what parse_sql_code returned
    catalog,   \* the datasets of data/local_storage, by name
    shared,    \* the state of the module objects, which live as long as
               \* the process
    xreq,      \* the submission POST /execute is serving or served last
    xres,      \* the response to it
    xpre,      \* catalog, artifact and module state as that call found
               \* them
    xprev,     \* the submission served before it, its response, and what
               \* that call found
    runs       \* calls of POST /execute so far

vars == <<file, pre, last, args, live, ops, iofails, procs, vsrc, vres, tmp,
          qtext, qres, catalog, shared, xreq, xres, xpre, xprev, runs>>
history == <<pre, last, args, live, ops, iofails>>
validator == <<vsrc, vres, tmp>>
query == <<qtext, qres>>
sandbox == <<catalog, shared, xreq, xres, xpre, xprev, runs>>
executor == <<query, sandbox>>

\* The two overlapping callers.
ProcIds == {1, 2}

NoArgs == [code |-> <<>>, description |-> <<>>, tags |-> <<>>]

Response(op, name, is_update, language, err) ==
    [op |-> op, name |-> name, is_update |-> is_update,
     language |-> language, ok |-> (err = ""), err |-> err]

NoRequest ==
    [pc |-> "idle", name |-> "", code |-> <<>>, description |-> <<>>,
     tags |-> <<>>, language |-> "", is_update |-> FALSE, content |-> <<>>,
     err |-> ""]

NoResult == [ok |-> FALSE, kind |-> "", module |-> <<>>]

\* No call yet, no call in progress.
HistoryInit ==
    /\ pre = Absent
    /\ last = Response("init", "", FALSE, "", "")
    /\ args = NoArgs
    /\ live = {}
    /\ ops = 0
    /\ iofails = 0

ValidatorIdle ==
    /\ vsrc = <<>>
    /\ vres = NoResult
    /\ tmp = FALSE

\* No query parsed.
NoParse == [sql_query |-> <<>>, save_as |-> "", dataset_names |-> {"?"}]

\* A dataset of data/local_storage: absent, written whole (data tells one
\* content from another), or left partly written.
NoDataset == [exists |-> FALSE, whole |-> TRUE, data |-> 0]
Dataset(data) == [exists |-> TRUE, whole |-> TRUE, data |-> data]
PartialDataset == [exists |-> TRUE, whole |-> FALSE, data |-> 0]
EmptyCatalog == [n \in SqlWords |-> NoDataset]

\* CodeRequest.code: the text when it is a query, and otherwise what the
\* Python source holds (src, as is_safe_code reads it), what ruff reports
\* on it (lint) and what it does when it runs (steps). engine: what the
\* query engine answers to the query.
Submission(text, src, lint, steps, engine) ==
    [text |-> text, src |-> src, lint |-> lint, steps |-> steps,
     engine |-> engine]
NoSubmission ==
    Submission(<<>>, [syntax_ok |-> TRUE, nodes |-> <<>>], "clean", <<>>, "ok")

\* ExecutionResponse (success, output, error_type), with the names an
\* error message lists, and what the call did on its way: the stage it
\* ended in, whether the source was compiled and run or the query
\* executed (ran), the exception the run raised, whether datasets were
\* loaded (loading). escaped: the call raised instead of returning a
\* response.
Result(success, output, names, error_type, stage, ran, raised, loading) ==
    [success |-> success, output |-> output, names |-> names,
     error_type |-> error_type, stage |-> stage, ran |-> ran,
     raised |-> raised, loading |-> loading, escaped |-> FALSE]
NoResponse == Result(FALSE, <<>>, {}, "", "", FALSE, "", FALSE)

\* What a call found: datasets, artifact, module state, and whether ruff
\* could be run and the disk written.
Snapshot(c, f, sh, ruff, io) ==
    [catalog |-> c, file |-> f, shared |-> sh, ruff |-> ruff, io |-> io]
NoSnapshot == Snapshot(EmptyCatalog, Absent, {}, "runs", "ok")
NoPrevious == [req |-> NoSubmission, res |-> NoResponse, pre |-> NoSnapshot]

\* No submission served yet.
SandboxIdle ==
    /\ catalog = EmptyCatalog
    /\ shared = {}
    /\ xreq = NoSubmission
    /\ xres = NoResponse
    /\ xpre = NoSnapshot
    /\ xprev = NoPrevious
    /\ runs = 0

ExecutorIdle ==
    /\ qtext = <<>>
    /\ qres = NoParse
    /\ SandboxIdle

Init ==
    /\ file = Absent
    /\ HistoryInit
    /\ procs = [p \in ProcIds |-> NoRequest]
    /\ ValidatorIdle
    /\ ExecutorIdle

\* with open(user_defined_path, 'w') as f: f.write(new_content)
WriteFile(old, lines, io) ==
    IF io = "ok" THEN File(lines) ELSE File(<<>>)

\* POST /api/save-function: save_user_function and save_function. The
\* description and tags are read only once the checks have passed and both
\* texts have parsed (line 208).
SaveFunction(name, code, language, is_update) ==
    LET err == SaveChecks(file, name, code, language, is_update)
        created == SaveCreate(file)
    IN  /\ ops < MaxOps
        /\ ops' = ops + 1
        /\ pre' = file
        /\ IF err # ""
           THEN /\ file' = file
                /\ last' = Response("save", name, is_update, language, err)
                /\ args' = NoArgs
                /\ UNCHANGED <<live, iofails>>
           ELSE IF ~(ast_parse(created.lines).ok /\ ast_parse(code).ok)
           THEN /\ file' = created
                /\ last' = Response("save", name, is_update, language, "failed")
                /\ args' = NoArgs
                /\ UNCHANGED <<live, iofails>>
           ELSE \E meta \in Metas, io \in IoOutcomes :
                LET m == SaveMerge(created.lines, name, code, meta.description,
                                   meta.tags, language, is_update)
                IN  \E all_imports \in Orderings(m.imports) :
                    /\ io # "ok" => iofails < MaxIoFailures
                    /\ iofails' = IF io = "ok" THEN iofails ELSE iofails + 1
                    /\ file' = WriteFile(created, SaveContent(m, all_imports), io)
                    /\ last' = Response("save", name, is_update, language,
                                        IF io = "ok" THEN "" ELSE "failed")
                    /\ args' = IF io = "ok"
                               THEN [code |-> code,
                                     description |-> meta.description,
                                     tags |-> meta.tags]
                               ELSE NoArgs
                    /\ live' = IF io = "ok" /\ ~is_update THEN live \cup {name}
                               ELSE live

Save ==
    /\ \E name \in Names, code \in Codes, language \in Languages,
          is_update \in BOOLEAN :
           SaveFunction(name, code, language, is_update)
    /\ UNCHANGED <<procs, validator, executor>>

\* DELETE /api/delete-function/{name}: delete_user_function, delete_function
DeleteFunction(name) ==
    LET m == DeleteMerge(file, name)
    IN  /\ ops < MaxOps
        /\ ops' = ops + 1
        /\ pre' = file
        /\ args' = NoArgs
        /\ IF m.err # ""
           THEN /\ file' = file
                /\ last' = Response("delete", name, FALSE, "", m.err)
                /\ UNCHANGED <<live, iofails>>
           ELSE \E io \in IoOutcomes :
                /\ io # "ok" => iofails < MaxIoFailures
                /\ iofails' = IF io = "ok" THEN iofails ELSE iofails + 1
                /\ file' = WriteFile(file, m.lines, io)
                /\ last' = Response("delete", name, FALSE, "",
                                    IF io = "ok" THEN "" ELSE "failed")
                /\ live' = IF io = "ok" THEN live \ {name} ELSE live

Delete ==
    /\ \E name \in Names : DeleteFunction(name)
    /\ UNCHANGED <<procs, validator, executor>>

\* GET /api/list-functions: list_functions and list_saved_functions. The
\* endpoint answers success = True with whatever list it was handed.
ListFunctions ==
    /\ last.op # "list"
    /\ last' = Response("list", "", FALSE, "", "")
    /\ pre' = file
    /\ args' = NoArgs
    /\ UNCHANGED <<file, live, ops, iofails, procs, validator, executor>>

Next == Save \/ Delete \/ ListFunctions

Spec == Init /\ [][Next]_vars

\* ------------------------------------------------------------------------
\* Claims about the repository, checked under Spec
\* ------------------------------------------------------------------------
\* The names list() returns for an artifact.
Listed(f) == list_saved_functions(f).functions
EntriesNamed(f, name) == {i \in 1..Len(Listed(f)) : Listed(f)[i].name = name}

\* Source text compared modulo whitespace: blank lines and indentation are
\* not told apart.
RECURSIVE NoWhitespace(_)
NoWhitespace(lines) ==
    IF lines = <<>> THEN <<>>
    ELSE IF Head(lines).k = "blank" THEN NoWhitespace(Tail(lines))
    ELSE <<[Head(lines) EXCEPT !.ind = 0]>> \o NoWhitespace(Tail(lines))

\* A mutating call (save or delete) has just returned.
Mutation == last.op \in {"save", "delete"}

\* C1: after any sequence of saveFunction and deleteFunction calls, list()
\* never returns two entries with the same name.
C1_UniqueNames ==
    \A i, j \in 1..Len(Listed(file)) :
        i # j => Listed(file)[i].name # Listed(file)[j].name

\* C2: when saveFunction(name = f, code = C, is_update = false) reports
\* success, list() returns exactly one entry named f, and its code equals C
\* modulo whitespace.
C2_SaveRoundTrip ==
    (last.op = "save" /\ last.ok /\ ~last.is_update) =>
        /\ Cardinality(EntriesNamed(file, last.name)) = 1
        /\ \A i \in EntriesNamed(file, last.name) :
             NoWhitespace(Listed(file)[i].code) = NoWhitespace(args.code)

\* C3: when deleteFunction(f) reports success, list() returns no entry named
\* f; and deleteFunction(f) on a repository with no function named f fails
\* with a not-found error.
C3_DeleteRoundTrip ==
    /\ (last.op = "delete" /\ last.ok) => EntriesNamed(file, last.name) = {}
    /\ (last.op = "delete" /\ EntriesNamed(pre, last.name) = {}) =>
            last.err \in {"not_found", "file_not_found"}

\* The metadata list() returns in entry e is the metadata d, t, l of a save.
SameMetadata(e, d, t, l) ==
    /\ e.description = d
    /\ Range(e.tags) = Range(t)
    /\ e.language = <<l>>

\* C4: the description, tag set and language passed to a successful
\* saveFunction are the ones list() returns for that function, immediately
\* after the save and after any later successful save or delete of another
\* name (such a call leaves the metadata list() returns for the other names
\* as it found them).
C4_MetadataRoundTrip ==
    /\ (last.op = "save" /\ last.ok) =>
          \E i \in EntriesNamed(file, last.name) :
             SameMetadata(Listed(file)[i], args.description, args.tags,
                          last.language)
    /\ (Mutation /\ last.ok) =>
          \A i \in 1..Len(Listed(pre)) :
             Listed(pre)[i].name # last.name =>
                \E j \in EntriesNamed(file, Listed(pre)[i].name) :
                   /\ Listed(file)[j].description = Listed(pre)[i].description
                   /\ Listed(file)[j].tags = Listed(pre)[i].tags
                   /\ Listed(file)[j].language = Listed(pre)[i].language

\* C5: if saveFunction(name = f, is_update = false) has succeeded and f has
\* not been deleted since, a further saveFunction(name = f, is_update =
\* false) fails with a name-conflict error.
C5_NameConflict ==
    [][ (/\ ops' = ops + 1
         /\ last'.op = "save"
         /\ ~last'.is_update
         /\ last'.name \in live)
        => (~last'.ok /\ last'.err = "exists") ]_vars

\* C6: saveFunction(name = g, is_update = true) fails with a not-found
\* error, and writes nothing, whenever list() has no entry named g.
C6_UpdateMissing ==
    (/\ last.op = "save"
     /\ last.is_update
     /\ last.name \in Identifiers
     /\ EntriesNamed(pre, last.name) = {})
    => (last.err = "not_found" /\ file = pre)

\* C8: a saveFunction or deleteFunction that reports failure leaves the
\* artifact with exactly the content it had before the call.
C8_FailureKeepsArtifact ==
    (Mutation /\ ~last.ok) => file = pre

\* C9: every failure of a repository operation, including an artifact that
\* cannot be read or parsed, is reported to the caller as an error result;
\* no failure is turned into a success or into an empty listing.
C9_FailuresReported ==
    /\ (last.op = "list" /\ list_saved_functions(file).raised) => ~last.ok
    /\ (Mutation /\ list_saved_functions(pre).raised) => ~last.ok

\* The import section of the artifact: the import lines that follow its
\* header.
RECURSIVE ImportRun(_)
ImportRun(lines) ==
    IF lines # <<>> /\ Head(lines).k = "import"
    THEN <<Head(lines)>> \o ImportRun(Tail(lines))
    ELSE <<>>

ImportSection(f) ==
    IF f.exists /\ Len(f.lines) > 2 THEN ImportRun(SubSeq(f.lines, 3, Len(f.lines)))
    ELSE <<>>

\* C20: after every successful saveFunction or deleteFunction the import
\* section of the artifact contains no duplicate line: the import
\* statements already in the artifact and those of the newly saved code
\* are merged so that each appears once, however many times the same
\* import is submitted across saves.
C20_NoDuplicateImports ==
    (Mutation /\ last.ok) =>
        LET section == ImportSection(file)
        IN  /\ \A i, j \in 1..Len(section) :
                  section[i] = section[j] => i = j
            /\ last.op = "save" =>
                  Range(section) =
                      Range(ImportSection(pre))
                      \cup {args.code[i] : i \in {k \in 1..Len(args.code) :
                                                    args.code[k].k = "import"}}

\* The artifact held import math and import os, a save submitted import os
\* again, and the section still holds each once.
C20_Witness ==
    /\ Mutation /\ last.ok /\ last.op = "save"
    /\ args.code = CodeFImp
    /\ Range(ImportSection(pre)) = {Imp("math", 0), Imp("os", 0)}
    /\ Len(ImportSection(file)) = 2

\* C22: after every saveFunction or deleteFunction that reports success,
\* the artifact is still parseable source that the next list(), save or
\* delete can read, for any code that save accepts, whether or not its
\* function has its own docstring, a decorator, a nested function
\* definition or an import.
C22_ArtifactParseable ==
    (Mutation /\ last.ok) => (file.exists /\ ast_parse(file.lines).ok)

\* Entry e of one listing is in the listing of f with its name and code.
Returned(f, e) ==
    \E j \in 1..Len(Listed(f)) :
        /\ Listed(f)[j].name = e.name
        /\ NoWhitespace(Listed(f)[j].code) = NoWhitespace(e.code)

\* C23: a successful saveFunction or deleteFunction for name n leaves every
\* other stored function unchanged: each entry that list() returned before
\* the call with a name different from n is returned after the call with
\* the same name and the same code, and no entry appears that was not
\* there before (other than n on a save).
C23_OthersUnchanged ==
    (Mutation /\ last.ok) =>
        /\ \A i \in 1..Len(Listed(pre)) :
              Listed(pre)[i].name # last.name => Returned(file, Listed(pre)[i])
        /\ \A j \in 1..Len(Listed(file)) :
              \/ last.op = "save" /\ Listed(file)[j].name = last.name
              \/ \E i \in 1..Len(Listed(pre)) :
                    Listed(pre)[i].name = Listed(file)[j].name

\* The import statements an artifact holds.
ImportLines(f) ==
    {f.lines[i] : i \in {k \in 1..Len(f.lines) : f.lines[k].k = "import"}}

\* C24: a successful deleteFunction(n) re-serializes the whole repository,
\* import block included: every import statement present in the artifact
\* before the delete is still present afterwards.
C24_DeleteKeepsImports ==
    (last.op = "delete" /\ last.ok) => ImportLines(pre) \subseteq ImportLines(file)

\* C25: a successful saveFunction(name = f, is_update = true) removes the
\* prior definition of f and appends the submitted code as a new unit:
\* afterwards list() has exactly one entry named f, its code is the newly
\* submitted code, and it is the last unit of the artifact.
C25_UpdateReplaces ==
    (last.op = "save" /\ last.ok /\ last.is_update) =>
        LET defs == FunctionDefs(ast_parse(file.lines).nodes)
            named == {i \in 1..Len(defs) : defs[i].name = last.name}
        IN  /\ ast_parse(file.lines).ok
            /\ Cardinality(named) = 1
            /\ \A i \in named :
                  /\ NoWhitespace(Span(file.lines, defs[i])) =
                        NoWhitespace(SelectSeq(args.code,
                                               LAMBDA ln : ~StartsWithImport(ln)))
                  /\ defs[i].end = Len(file.lines)

\* C29: the existence check that saveFunction uses to decide between
\* name-conflict and not-found agrees with list() in every reachable
\* repository state: it reports name n as existing exactly when list()
\* returns an entry named n.
C29_ExistenceAgreesWithList ==
    \A n \in Identifiers :
        check_function_exists(file, n) <=> EntriesNamed(file, n) # {}

\* The artifact a call found could be read: it was absent or it parsed.
Readable(f) == ~f.exists \/ ast_parse(f.lines).ok

\* C30: saveFunction validates in the order identifier syntax, then
\* existence against is_update, then code; the requirement that the code
\* parses and contains a function definition applies only when language
\* is python, so a save with any other language, of a valid name that
\* passes the existence check, on a readable artifact and with no write
\* failing, is never rejected.
C30_ValidationOrder ==
    last.op = "save" =>
        LET named == validate_function_name(last.name).ok
            exists == check_function_exists(pre, last.name)
        IN  /\ ~named => last.err = "invalid_name"
            /\ (named /\ exists /\ ~last.is_update) => last.err = "exists"
            /\ (named /\ ~exists /\ last.is_update) => last.err = "not_found"
            /\ (/\ named
                /\ exists <=> last.is_update
                /\ last.language # "python"
                /\ Readable(pre)
                /\ iofails = 0)
               => last.ok

\* ------------------------------------------------------------------------
\* Overlapping save_function calls
\*
\* save_function takes no lock (utils.py holds none, main.py's endpoint
\* adds none). The endpoint is an async def that never awaits, so one event
\* loop runs one call to its end before the next; calls overlap when the
\* artifact is shared by two server processes or by threads calling
\* save_function, and then they interleave at the file accesses: the
\* existence check (line 127), the creation of a missing file (146-148), the
\* read (151-152) and the write (228-229).
\* ------------------------------------------------------------------------
\* Code whose one function carries the name it is saved under.
CodesNamed(name) ==
    IF name = "f" THEN {CodeF1, CodeF2} ELSE {CodeG, CodeGImp}

Request(name, code, meta) ==
    [pc |-> "check", name |-> name, code |-> code,
     description |-> meta.description, tags |-> meta.tags,
     language |-> "python", is_update |-> FALSE, content |-> <<>>,
     err |-> ""]

ConcInit ==
    /\ file \in {Absent, File(<<Hdr, Blank>>)}
    /\ HistoryInit
    /\ ValidatorIdle
    /\ ExecutorIdle
    /\ \E n1, n2 \in Identifiers :
         /\ n1 # n2
         /\ \E c1 \in CodesNamed(n1), c2 \in CodesNamed(n2), m1, m2 \in Metas :
              procs = [p \in ProcIds |->
                         IF p = 1 THEN Request(n1, c1, m1)
                         ELSE Request(n2, c2, m2)]

\* lines 121-137
ConcCheck(p) ==
    LET r == procs[p]
        err == SaveChecks(file, r.name, r.code, r.language, r.is_update)
    IN  /\ r.pc = "check"
        /\ procs' = [procs EXCEPT ![p].pc = IF err = "" THEN "create" ELSE "done",
                                  ![p].err = err]
        /\ UNCHANGED <<file, history, validator, executor>>

\* lines 146-148
ConcCreate(p) ==
    /\ procs[p].pc = "create"
    /\ file' = SaveCreate(file)
    /\ procs' = [procs EXCEPT ![p].pc = "read"]
    /\ UNCHANGED <<history, validator, executor>>

\* lines 151-152
ConcRead(p) ==
    /\ procs[p].pc = "read"
    /\ procs' = [procs EXCEPT ![p].pc = "write", ![p].content = file.lines]
    /\ UNCHANGED <<file, history, validator, executor>>

\* lines 155-232
ConcWrite(p) ==
    LET r == procs[p]
        m == SaveMerge(r.content, r.name, r.code, r.description, r.tags,
                       r.language, r.is_update)
    IN  /\ r.pc = "write"
        /\ IF ~m.ok
           THEN /\ procs' = [procs EXCEPT ![p].pc = "done", ![p].err = "failed"]
                /\ UNCHANGED file
           ELSE \E all_imports \in Orderings(m.imports) :
                /\ file' = File(SaveContent(m, all_imports))
                /\ procs' = [procs EXCEPT ![p].pc = "done"]
        /\ UNCHANGED <<history, validator, executor>>

ConcNext ==
    \E p \in ProcIds :
        ConcCheck(p) \/ ConcCreate(p) \/ ConcRead(p) \/ ConcWrite(p)

SpecConc == ConcInit /\ [][ConcNext]_vars

\* Both calls have returned success.
BothSaved == \A p \in ProcIds : procs[p].pc = "done" /\ procs[p].err = ""

\* C7: two saveFunction calls for distinct names that run concurrently
\* against the same artifact, their steps interleaved in any order, both
\* take effect: once both have reported success, list() contains both names.
C7_ConcurrentSaves ==
    BothSaved => \A p \in ProcIds : EntriesNamed(file, procs[p].name) # {}

\* ------------------------------------------------------------------------
\* The safety validator (main.py, is_safe_code)
\*
\* A module name is the sequence of its characters, so that split('.') and
\* startswith are computed on the text as Python computes them.
\* ------------------------------------------------------------------------
\* abc, argparse, array, ast, asyncio, base64, ...
STDLIB_MODULES == {
    <<"a","b","c">>, <<"a","r","g","p","a","r","s","e">>,
    <<"a","r","r","a","y">>, <<"a","s","t">>, <<"a","s","y","n","c","i","o">>,
    <<"b","a","s","e","6","4">>, <<"b","i","n","a","s","c","i","i">>,
    <<"b","i","s","e","c","t">>, <<"c","a","l","e","n","d","a","r">>,
    <<"c","o","l","l","e","c","t","i","o","n","s">>,
    <<"c","o","n","c","u","r","r","e","n","t">>,
    <<"c","o","n","t","e","x","t","l","i","b">>, <<"c","o","p","y">>,
    <<"c","s","v">>, <<"d","a","t","e","t","i","m","e">>,
    <<"d","e","c","i","m","a","l">>, <<"d","i","f","f","l","i","b">>,
    <<"d","u","c","k","d","b">>, <<"e","n","u","m">>,
    <<"f","i","l","e","i","n","p","u","t">>, <<"f","n","m","a","t","c","h">>,
    <<"f","r","a","c","t","i","o","n","s">>,
    <<"f","u","n","c","t","o","o","l","s">>, <<"g","l","o","b">>,
    <<"g","z","i","p">>, <<"h","a","s","h","l","i","b">>,
    <<"h","e","a","p","q">>, <<"h","m","a","c">>, <<"h","t","m","l">>,
    <<"h","t","t","p">>, <<"i","m","a","p","l","i","b">>,
    <<"i","m","g","h","d","r">>, <<"i","m","p","o","r","t","l","i","b">>,
    <<"i","n","s","p","e","c","t">>, <<"i","o">>,
    <<"i","p","a","d","d","r","e","s","s">>,
    <<"i","t","e","r","t","o","o","l","s">>, <<"j","s","o","n">>,
    <<"k","e","y","w","o","r","d">>, <<"l","i","n","e","c","a","c","h","e">>,
    <<"l","o","c","a","l","e">>, <<"l","o","g","g","i","n","g">>,
    <<"m","a","t","h">>, <<"m","i","m","e","t","y","p","e","s">>,
    <<"n","u","m","b","e","r","s">>, <<"o","p","e","r","a","t","o","r">>,
    <<"o","s">>, <<"p","a","t","h","l","i","b">>, <<"p","i","c","k","l","e">>,
    <<"p","i","c","k","l","e","t","o","o","l","s">>,
    <<"p","l","a","t","f","o","r","m">>, <<"p","p","r","i","n","t">>,
    <<"q","u","e","u","e">>, <<"r","a","n","d","o","m">>, <<"r","e">>,
    <<"r","e","p","r","l","i","b">>, <<"s","e","c","r","e","t","s">>,
    <<"s","e","l","e","c","t","o","r","s">>, <<"s","h","e","l","v","e">>,
    <<"s","h","l","e","x">>, <<"s","h","u","t","i","l">>,
    <<"s","i","g","n","a","l">>, <<"s","o","c","k","e","t">>,
    <<"s","o","c","k","e","t","s","e","r","v","e","r">>,
    <<"s","t","a","t","i","s","t","i","c","s">>, <<"s","t","r","i","n","g">>,
    <<"s","t","r","u","c","t">>, <<"s","u","b","p","r","o","c","e","s","s">>,
    <<"s","y","s">>, <<"t","e","m","p","f","i","l","e">>,
    <<"t","e","x","t","w","r","a","p">>,
    <<"t","h","r","e","a","d","i","n","g">>, <<"t","i","m","e">>,
    <<"t","i","m","e","i","t">>, <<"t","o","k","e","n">>,
    <<"t","o","k","e","n","i","z","e">>,
    <<"t","r","a","c","e","b","a","c","k">>, <<"t","y","p","e","s">>,
    <<"t","y","p","i","n","g">>,
    <<"u","n","i","c","o","d","e","d","a","t","a">>,
    <<"u","n","i","t","t","e","s","t">>, <<"u","r","l","l","i","b">>,
    <<"u","u","i","d">>, <<"w","a","r","n","i","n","g","s">>,
    <<"w","a","v","e">>, <<"w","e","a","k","r","e","f">>, <<"x","m","l">>,
    <<"x","m","l","r","p","c">>, <<"z","i","p","f","i","l","e">>,
    <<"z","l","i","b">> }

\* polars, functions, pyarrow, bokeh, sklearn, matplotlib, seaborn, google.cloud
ALLOWED_EXTERNAL_MODULES == {
    <<"p","o","l","a","r","s">>, <<"f","u","n","c","t","i","o","n","s">>,
    <<"p","y","a","r","r","o","w">>, <<"b","o","k","e","h">>,
    <<"s","k","l","e","a","r","n">>,
    <<"m","a","t","p","l","o","t","l","i","b">>,
    <<"s","e","a","b","o","r","n">>,
    <<"g","o","o","g","l","e",".","c","l","o","u","d">> }

\* name.split('.')[0]
RECURSIVE Root(_)
Root(m) ==
    IF m = <<>> \/ Head(m) = "." THEN <<>> ELSE <<Head(m)>> \o Root(Tail(m))

\* a.startswith(b)
StartsWith(a, b) == Len(b) <= Len(a) /\ SubSeq(a, 1, Len(b)) = b

\* name.split('.')
RECURSIVE Components(_)
Components(m) ==
    LET r == Root(m)
    IN  IF Len(r) = Len(m) THEN <<r>>
        ELSE <<r>> \o Components(SubSeq(m, Len(r) + 2, Len(m)))

\* An AST node of the submitted source, as is_safe_code reads it:
\*   t       "Import", "ImportFrom" or "Call"
\*   names   Import: the dotted names imported
\*   module  ImportFrom: node.module, <<>> for None (from . import x)
\*   func    Call: the callee when it is a bare name
\*   depth   the depth of the node in the tree
\* The source: [syntax_ok, nodes], nodes in source order.
ImportNode(names, depth) ==
    [t |-> "Import", names |-> names, module |-> <<>>, func |-> "",
     depth |-> depth]
ImportFromNode(module, depth) ==
    [t |-> "ImportFrom", names |-> <<>>, module |-> module, func |-> "",
     depth |-> depth]
CallNode(func, depth) ==
    [t |-> "Call", names |-> <<>>, module |-> <<>>, func |-> func,
     depth |-> depth]

Verdict(ok, kind, module) == [ok |-> ok, kind |-> kind, module |-> module]

\* lines 131-132 and 139-140: the allow-list test on one dotted name
ImportAllowed(name) ==
    \/ Root(name) \in STDLIB_MODULES
    \/ \E allowed \in ALLOWED_EXTERNAL_MODULES : StartsWith(name, allowed)

\* lines 129-135: the first name of an Import node that is not allowed
RECURSIVE FirstUnsafe(_)
FirstUnsafe(names) ==
    IF names = <<>> THEN <<>>
    ELSE IF ImportAllowed(Head(names)) THEN FirstUnsafe(Tail(names))
    ELSE Head(names)

\* The loop over ast.walk(tree) with the test of lines 144-147 left out.
RECURSIVE CheckImports(_)
CheckImports(nodes) ==
    IF nodes = <<>> THEN Verdict(TRUE, "", <<>>)
    ELSE LET node == Head(nodes)
         IN  IF node.t = "Import" /\ FirstUnsafe(node.names) # <<>>
             THEN Verdict(FALSE, "unsafe_import", FirstUnsafe(node.names))
             ELSE IF node.t = "ImportFrom" /\ node.module = <<>>
             THEN Verdict(FALSE, "validation_error", <<>>)
             ELSE IF node.t = "ImportFrom" /\ ~ImportAllowed(node.module)
             THEN Verdict(FALSE, "unsafe_import", node.module)
             ELSE CheckImports(Tail(nodes))

\* lines 126-147: the loop over ast.walk(tree); the verdict of the first
\* node that fails, "" if none does. A denied call is named in module. An ImportFrom without a module makes
\* node.module.startswith raise, which line 172 turns into a validation
\* error.
RECURSIVE CheckNodes(_)
CheckNodes(nodes) ==
    IF nodes = <<>> THEN Verdict(TRUE, "", <<>>)
    ELSE LET node == Head(nodes)
         IN  IF node.t = "Import" /\ FirstUnsafe(node.names) # <<>>
             THEN Verdict(FALSE, "unsafe_import", FirstUnsafe(node.names))
             ELSE IF node.t = "ImportFrom" /\ node.module = <<>>
             THEN Verdict(FALSE, "validation_error", <<>>)
             ELSE IF node.t = "ImportFrom" /\ ~ImportAllowed(node.module)
             THEN Verdict(FALSE, "unsafe_import", node.module)
             ELSE IF node.t = "Call" /\ node.func \in {"eval", "exec"}
             THEN Verdict(FALSE, "unsafe_call", <<node.func>>)
             ELSE CheckNodes(Tail(nodes))

\* What the linter pass can meet: ruff reports nothing, ruff reports a
\* finding, ruff cannot be started, or writing the source into the
\* temporary file fails.
LintOutcomes == {"clean", "finding", "nostart", "writefail"}

\* is_safe_code(code): [verdict, tmp]; tmp: the temporary file is left
\* behind.
is_safe_code(src, lint) ==
    LET v == CheckNodes(ast_walk(src.nodes))
    IN  IF ~src.syntax_ok
        THEN [verdict |-> Verdict(FALSE, "syntax", <<>>), tmp |-> FALSE]
        ELSE IF ~v.ok THEN [verdict |-> v, tmp |-> FALSE]
        ELSE IF lint = "writefail"
        THEN [verdict |-> Verdict(FALSE, "validation_error", <<>>),
              tmp |-> TRUE]
        ELSE IF lint = "nostart"
        THEN [verdict |-> Verdict(FALSE, "validation_error", <<>>),
              tmp |-> FALSE]
        ELSE IF lint = "finding"
        THEN [verdict |-> Verdict(FALSE, "lint", <<>>), tmp |-> FALSE]
        ELSE [verdict |-> Verdict(TRUE, "", <<>>), tmp |-> FALSE]

\* The module names the submitted sources import.
Modules == {
    <<"o","s">>, <<"o","s",".","p","a","t","h">>,
    <<"p","o","l","a","r","s">>, <<"p","o","l","a","r","s",".","i","o">>,
    <<"p","o","l","a","r","s","x">>,
    <<"g","o","o","g","l","e">>,
    <<"g","o","o","g","l","e",".","c","l","o","u","d","x">>,
    <<"e","v","i","l">> }

NodeSet ==
    {ImportNode(<<m>>, d) : m \in Modules, d \in {1, 2}}
    \cup {ImportNode(<<<<"o","s">>, m>>, 1) : m \in Modules}
    \cup {ImportFromNode(m, d) : m \in Modules \cup {<<>>}, d \in {1, 2}}
    \cup {CallNode(f, d) : f \in {"eval", "exec", "print"}, d \in {2, 3}}

\* Number of import statements and calls in a submitted source.
MaxNodes == 2

Sources ==
    {[syntax_ok |-> FALSE, nodes |-> <<>>]}
    \cup {[syntax_ok |-> TRUE, nodes |-> ns] :
            ns \in UNION {[1..n -> NodeSet] : n \in 0..MaxNodes}}

ValidateInit ==
    /\ file = Absent
    /\ HistoryInit
    /\ procs = [p \in ProcIds |-> NoRequest]
    /\ vsrc \in Sources
    /\ vres = NoResult
    /\ tmp = FALSE
    /\ ExecutorIdle

\* validate(source)
Validate ==
    /\ vres = NoResult
    /\ \E lint \in LintOutcomes :
         /\ vres' = is_safe_code(vsrc, lint).verdict
         /\ tmp' = is_safe_code(vsrc, lint).tmp
    /\ UNCHANGED <<file, history, procs, vsrc, executor>>

ValidateNext == Validate

SpecValidate == ValidateInit /\ [][ValidateNext]_vars

\* The allow-list of the specification, and a module name that neither
\* equals an entry nor is related to one by whole dotted components.
AllowList == STDLIB_MODULES \cup ALLOWED_EXTERNAL_MODULES
IsPrefix(a, b) == Len(a) <= Len(b) /\ SubSeq(b, 1, Len(a)) = a
Disallowed(m) ==
    /\ m # <<>>
    /\ \A e \in AllowList :
         /\ ~IsPrefix(Components(m), Components(e))
         /\ ~IsPrefix(Components(e), Components(m))

\* The modules the import statements of a source name.
Imported(src) ==
    UNION {Range(src.nodes[i].names) \cup {src.nodes[i].module} :
             i \in 1..Len(src.nodes)}

\* C10: for every source containing an import statement of a module whose
\* name neither equals an allow-list entry nor is related to one by whole
\* dotted components, validate returns ok = false with a reason that names
\* that module.
C10_DisallowedImportRejected ==
    (vres # NoResult /\ \E m \in Imported(vsrc) : Disallowed(m)) =>
        /\ ~vres.ok
        /\ vres.kind = "unsafe_import"
        /\ vres.module \in Imported(vsrc)
        /\ Disallowed(vres.module)

\* A module name that equals an allow-list entry or extends one by whole
\* dotted components.
AllowListed(m) ==
    m # <<>> /\ \E e \in AllowList : IsPrefix(Components(e), Components(m))

\* Every import statement of the source names allow-listed modules only.
OnlyAllowedImports(src) ==
    \A i \in 1..Len(src.nodes) :
        /\ src.nodes[i].t = "Import" =>
              \A k \in 1..Len(src.nodes[i].names) :
                  AllowListed(src.nodes[i].names[k])
        /\ src.nodes[i].t = "ImportFrom" => AllowListed(src.nodes[i].module)

\* The denied primitives the source calls by their bare name.
DeniedCalls(src) ==
    {src.nodes[i].func : i \in {k \in 1..Len(src.nodes) :
                                   /\ src.nodes[k].t = "Call"
                                   /\ src.nodes[k].func \in {"eval", "exec"}}}

RejectedImport(src) ==
    \E i \in 1..Len(src.nodes) :
        \/ src.nodes[i].t = "Import" /\ FirstUnsafe(src.nodes[i].names) # <<>>
        \/ /\ src.nodes[i].t = "ImportFrom"
           /\ src.nodes[i].module # <<>>
           /\ ~ImportAllowed(src.nodes[i].module)

\* C26: validate applies its steps in the order syntax, imports, denied
\* calls, linter and stops at the first failing step: for a source that
\* contains both a disallowed import and a call to a denied primitive, the
\* reported failure is the import failure, wherever the two occur in the
\* source.
C26_ImportsBeforeCalls ==
    (/\ vres # NoResult
     /\ vsrc.syntax_ok
     /\ \A i \in 1..Len(vsrc.nodes) :
           vsrc.nodes[i].t = "ImportFrom" => vsrc.nodes[i].module # <<>>
     /\ RejectedImport(vsrc)
     /\ DeniedCalls(vsrc) # {})
    => vres.kind = "unsafe_import"

\* C27: the temporary file created for the linter pass no longer exists
\* when validate returns, on every exit path after its creation: linter
\* clean, linter reporting a finding, linter failing to start, or a failure
\* while the source is being written into the file.
C27_TempFileRemoved ==
    vres # NoResult => ~tmp

\* ------------------------------------------------------------------------
\* parse_sql_code on its own: every query text of up to MaxTokens tokens
\* ------------------------------------------------------------------------
\* Number of tokens in a query text.
MaxTokens == 4

SqlTokens == SqlWords \cup {SqlDecorator, SaveMarker, Newline}

Texts == UNION {[1..n -> SqlTokens] : n \in 0..MaxTokens}

QueryInit ==
    /\ file = Absent
    /\ HistoryInit
    /\ procs = [p \in ProcIds |-> NoRequest]
    /\ ValidatorIdle
    /\ SandboxIdle
    /\ qtext \in Texts
    /\ qres = NoParse

\* parse(query_text)
Parse ==
    /\ qres = NoParse
    /\ qres' = parse_sql_code(qtext)
    /\ UNCHANGED <<file, history, procs, validator, qtext, sandbox>>

QueryNext == Parse

SpecParse == QueryInit /\ [][QueryNext]_vars

\* A directive comment -- save_as: NAME starts at token i: the marker with
\* a name after it on its line.
DirectiveAt(s, i) ==
    s[i] = SaveMarker /\ i < Len(s) /\ s[i + 1] \in SqlWords

\* The name of the first directive comment of a text, "" when it has none.
DirectiveName(s) ==
    IF \E i \in 1..Len(s) : DirectiveAt(s, i)
    THEN s[(CHOOSE i \in 1..Len(s) :
              DirectiveAt(s, i) /\ \A k \in 1..(i - 1) : ~DirectiveAt(s, k)) + 1]
    ELSE ""

\* The identifiers that immediately follow a FROM or JOIN keyword.
TablesAfterKeywords(s) ==
    {s[SkipSpace(s, i + 1)] :
        i \in {k \in 1..Len(s) :
                 /\ s[k] \in FromJoin
                 /\ SkipSpace(s, k + 1) <= Len(s)
                 /\ s[SkipSpace(s, k + 1)] \in SqlWords \ FromJoin}}

\* Texts in which what follows a keyword is beyond dispute: FROM and JOIN
\* are keywords (not the name of a directive), a table name or the end of
\* the text follows each, and a directive comment holds its name only.
PlainQuery(s) ==
    /\ \A i \in 1..Len(s) :
         s[i] \in FromJoin =>
            /\ i = 1 \/ s[i - 1] # SaveMarker
            /\ SkipSpace(s, i + 1) <= Len(s) =>
                  s[SkipSpace(s, i + 1)] \in SqlWords \ FromJoin
    /\ \A i \in 1..Len(s) :
         s[i] = SaveMarker =>
            /\ DirectiveAt(s, i)
            /\ i + 2 <= Len(s) => s[i + 2] = Newline

\* C15: for any query text, parse returns referenced_tables equal to the
\* set of identifiers that immediately follow a FROM or JOIN keyword, in
\* any letter case, and persist_as equal to NAME when the text carries a
\* directive comment -- save_as: NAME and empty when it carries none.
C15_ParseDirective ==
    qres # NoParse =>
        /\ PlainQuery(qtext) => qres.dataset_names = TablesAfterKeywords(qtext)
        /\ qres.save_as = DirectiveName(qtext)

\* The words of a text that are neither the decorator marker nor part of
\* a directive comment, in their order, line breaks left out.
RECURSIVE KeptWords(_, _)
KeptWords(s, i) ==
    IF i > Len(s) THEN <<>>
    ELSE IF DirectiveAt(s, i) THEN KeptWords(s, i + 2)
    ELSE IF s[i] \in {SqlDecorator, Newline} THEN KeptWords(s, i + 1)
    ELSE <<s[i]>> \o KeptWords(s, i + 1)

\* C28: the normalized query_text returned by parse contains neither the
\* @sql decorator marker nor the persistence-directive comment, wherever
\* the directive appears in the input (followed by a newline or ending the
\* text), has no leading or trailing whitespace, and is otherwise the
\* input text unchanged.
C28_NormalizedQuery ==
    qres # NoParse =>
        LET q == qres.sql_query
        IN  /\ \A i \in 1..Len(q) : q[i] # SqlDecorator /\ ~DirectiveAt(q, i)
            /\ q # <<>> => q[1] # Newline /\ q[Len(q)] # Newline
            /\ SelectSeq(q, LAMBDA t : t # Newline) = KeptWords(qtext, 1)

\* ------------------------------------------------------------------------
\* The execution sandbox and the query executor (main.py, execute_code;
\* utils.py, execute_sql; mako.py, save)
\* ------------------------------------------------------------------------
\* The keys of the dictionary create_safe_globals() returns.
create_safe_globals ==
    {"pl", "polars", "os", "pyarrow", "bokeh", "storage", "bigquery",
     "bigquery_storage", "sklearn", "matplotlib", "plt", "seaborn", "sns",
     "datetime", "timedelta", "date", "time", "timezone", "random",
     "functions",
     "abs", "all", "any", "bool", "dict", "enumerate", "filter", "float",
     "format", "frozenset", "int", "isinstance", "len", "list", "map",
     "max", "min", "print", "range", "repr", "reversed", "round", "set",
     "slice", "sorted", "str", "sum", "tuple", "zip"}

\* The names of Python's builtins module: its functions, and the
\* exceptions the submitted programs raise.
Builtins ==
    {"__import__", "abs", "aiter", "all", "anext", "any", "ascii", "bin",
     "bool", "breakpoint", "bytearray", "bytes", "callable", "chr",
     "classmethod", "compile", "complex", "delattr", "dict", "dir",
     "divmod", "enumerate", "eval", "exec", "filter", "float", "format",
     "frozenset", "getattr", "globals", "hasattr", "hash", "hex", "id",
     "input", "int", "isinstance", "issubclass", "iter", "len", "list",
     "locals", "map", "max", "memoryview", "min", "next", "object", "oct",
     "open", "ord", "pow", "print", "property", "range", "repr",
     "reversed", "round", "set", "setattr", "slice", "sorted",
     "staticmethod", "str", "sum", "super", "tuple", "type", "vars", "zip",
     "ValueError", "SystemExit", "NameError", "OSError"}

\* Exceptions that derive from BaseException and not from Exception:
\* except Exception does not catch them.
NotExceptions == {"SystemExit", "KeyboardInterrupt", "GeneratorExit"}

\* line 317, exec(code, safe_globals, local_vars): the names executed code
\* resolves. exec() puts the builtins module under "__builtins__" into a
\* globals dictionary that lacks the key, and name lookup ends there.
ExecNamespace(globals) ==
    IF "__builtins__" \in globals THEN globals ELSE globals \cup Builtins

\* What a submitted program does, statement by statement. via is the name
\* the statement resolves first.
\*   print(a)                         raise Kind(msg)
\*   print(a, file=sys.stderr)        print(name)
\*   functions.mako.save(df, name)    os.remove(<user_defined.py>)
\*   random.a = 1                     print(hasattr(random, a))
PrintStep(a) == [op |-> "print", via |-> "print", arg |-> a]
StderrStep(a) == [op |-> "stderr", via |-> "print", arg |-> a]
RaiseStep(kind, msg) == [op |-> "raise", via |-> kind, arg |-> msg]
NameStep(name) == [op |-> "name", via |-> name, arg |-> name]
SaveStep(name) == [op |-> "save", via |-> "functions", arg |-> name]
RemoveStep == [op |-> "remove", via |-> "os", arg |-> ""]
SetAttrStep(a) == [op |-> "setattr", via |-> "random", arg |-> a]
HasAttrStep(a) == [op |-> "hasattr", via |-> "random", arg |-> a]

\* The state of a run: captured stdout and stderr, the datasets, the
\* artifact, the module state, and the exception that ended it.
RunState(c, f, sh) ==
    [out |-> <<>>, err |-> <<>>, catalog |-> c, file |-> f, shared |-> sh,
     raised |-> "", msg |-> <<>>]

Raised(st, kind, msg) == [st EXCEPT !.raised = kind, !.msg = msg]

\* mako.py 15-51, save(df, filename): writes <filename>.parquet, whole or,
\* when the write fails, in part.
save(c, filename, data, io) ==
    [c EXCEPT ![filename] = IF io = "ok" THEN Dataset(data)
                            ELSE PartialDataset]

RunStep(st, step, ns, data, io) ==
    IF step.via \notin ns THEN Raised(st, "NameError", <<step.via>>)
    ELSE IF step.op = "print" THEN [st EXCEPT !.out = @ \o <<step.arg>>]
    ELSE IF step.op = "stderr" THEN [st EXCEPT !.err = @ \o <<step.arg>>]
    ELSE IF step.op = "raise" THEN Raised(st, step.via, <<step.arg>>)
    ELSE IF step.op = "name" THEN [st EXCEPT !.out = @ \o <<step.arg>>]
    ELSE IF step.op = "save"
    THEN LET written == [st EXCEPT !.catalog = save(@, step.arg, data, io),
                                   !.out = @ \o <<"Saving file to:">>]
         IN  IF io = "ok" THEN written
             ELSE Raised(written, "OSError", <<"write failed">>)
    ELSE IF step.op = "remove"
    THEN IF st.file.exists THEN [st EXCEPT !.file = Absent]
         ELSE Raised(st, "FileNotFoundError", <<"user_defined.py">>)
    ELSE IF step.op = "setattr" THEN [st EXCEPT !.shared = @ \cup {step.arg}]
    ELSE [st EXCEPT !.out = @ \o <<IF step.arg \in st.shared THEN "True"
                                    ELSE "False">>]

RECURSIVE Run(_, _, _, _, _)
Run(steps, st, ns, data, io) ==
    IF steps = <<>> \/ st.raised # "" THEN st
    ELSE Run(Tail(steps), RunStep(st, Head(steps), ns, data, io), ns, data, io)

\* execute_code going on whatever the validator answers.
IsSafeUnchecked(req, lint) == TRUE

\* lines 297-298: is_safe, error_msg = is_safe_code(request.code)
IsSafe(req, lint) == is_safe_code(req.src, lint).verdict.ok

\* The validator's message: what it found, and the module it names.
Reason(v) == <<v.kind>> \o v.module

\* lines 320-350: the response to a run that ended in state st
Classify(st) ==
    IF st.raised \in NotExceptions
    THEN [Result(FALSE, <<>>, {}, "", "run", TRUE, st.raised, FALSE)
             EXCEPT !.escaped = TRUE]
    ELSE IF st.raised # ""
    THEN Result(FALSE, st.msg, {}, st.raised, "run", TRUE, st.raised, FALSE)
    ELSE IF st.err # <<>>
    THEN Result(FALSE, st.err, {}, "RuntimeError", "run", TRUE, "", FALSE)
    ELSE IF st.out = <<>>
    THEN Result(TRUE, <<"Code executed successfully (no output)">>, {}, "",
                "run", TRUE, "", FALSE)
    ELSE Result(TRUE, st.out, {}, "", "run", TRUE, "", FALSE)

\* lines 296-357: the Python branch of execute_code.
\* [res, catalog, file, shared, tmp]
ExecutePython(req, c, f, sh, ruff, io, data) ==
    LET lint == IF ruff = "runs" THEN req.lint ELSE ruff
        st0 == RunState(c, f, sh)
        st == IF req.src.syntax_ok
              THEN Run(req.steps, st0, ExecNamespace(create_safe_globals),
                       data, io)
              ELSE Raised(st0, "SyntaxError", <<"invalid syntax">>)
    IN  IF ~IsSafe(req, lint)
        THEN [res |-> Result(FALSE, Reason(is_safe_code(req.src, lint).verdict),
                             {}, "CodeValidationError", "validation", FALSE,
                             "", FALSE),
              catalog |-> c, file |-> f, shared |-> sh,
              tmp |-> is_safe_code(req.src, lint).tmp]
        ELSE [res |-> Classify(st), catalog |-> st.catalog, file |-> st.file,
              shared |-> st.shared, tmp |-> FALSE]

\* lines 283-294: both handlers of the query branch answer SQLError
SqlError(output, names, stage, ran, loading) ==
    Result(FALSE, output, names, "SQLError", stage, ran, "", loading)

\* utils.py 11-49, execute_sql, and lines 274-294 of execute_code.
\* [res, catalog]
execute_sql(code, engine, c, io, data) ==
    LET p == parse_sql_code(code)
        v == validate_datasets(p.dataset_names, c)
        loading == p.dataset_names # {}
        unreadable == {n \in p.dataset_names : ~c[n].whole}
    IN  IF ~v.is_valid
        THEN [res |-> SqlError(<<"Missing datasets:">>, v.missing,
                               "sql_missing", FALSE, FALSE),
              catalog |-> c]
        ELSE IF unreadable # {}
        THEN [res |-> SqlError(<<"Unexpected error executing SQL:",
                                 "read failed">>, {}, "sql_load", FALSE,
                               loading),
              catalog |-> c]
        ELSE IF engine # "ok"
        THEN [res |-> SqlError(<<"SQL execution error:", "engine message">>,
                               {}, "sql_query", TRUE, loading),
              catalog |-> c]
        ELSE IF p.save_as = ""
        THEN [res |-> Result(TRUE, <<"result">>, {}, "", "sql_done", TRUE, "",
                             loading),
              catalog |-> c]
        ELSE IF io = "ok"
        THEN [res |-> Result(TRUE, <<"result">>, {}, "", "sql_done", TRUE, "",
                             loading),
              catalog |-> save(c, p.save_as, data, io)]
        ELSE [res |-> SqlError(<<"SQL execution error:", "write failed">>, {},
                               "sql_persist", TRUE, loading),
              catalog |-> save(c, p.save_as, data, io)]

\* line 274: request.code.strip().startswith('@sql')
IsSqlCode(text) == Strip(text) # <<>> /\ Head(Strip(text)) = SqlDecorator

\* ------------------------------------------------------------------------
\* Submissions to POST /execute
\* ------------------------------------------------------------------------
Source(nodes) == [syntax_ok |-> TRUE, nodes |-> nodes]
Program(nodes, steps) == Submission(<<>>, Source(nodes), "clean", steps, "ok")

\* print("a")
PrintProgram == Program(<<>>, <<PrintStep("a")>>)
\* pass
SilentProgram == Program(<<>>, <<>>)
\* print("a"); raise ValueError("boom")
RaiseProgram ==
    Program(<<>>, <<PrintStep("a"), RaiseStep("ValueError", "boom")>>)
\* raise SystemExit("bye")
ExitProgram == Program(<<>>, <<RaiseStep("SystemExit", "bye")>>)
\* import sys; print("warn", file=sys.stderr)
StderrProgram ==
    Program(<<ImportNode(<< <<"s", "y", "s">> >>, 1)>>, <<StderrStep("warn")>>)
\* import polars as pl; from functions import mako
\* mako.save(pl.DataFrame(...), "orders"); raise ValueError("boom")
SaveRaiseProgram ==
    Program(<<ImportNode(<< <<"p", "o", "l", "a", "r", "s">> >>, 1),
              ImportFromNode(<<"f", "u", "n", "c", "t", "i", "o", "n", "s">>, 1)>>,
            <<SaveStep("orders"), RaiseStep("ValueError", "boom")>>)
\* import random; print(hasattr(random, "flag")); random.flag = 1
FlagProgram ==
    Program(<<ImportNode(<< <<"r", "a", "n", "d", "o", "m">> >>, 1)>>,
            <<HasAttrStep("flag"), SetAttrStep("flag")>>)
\* print(open)
OpenProgram == Program(<<>>, <<NameStep("open")>>)
\* import os; os.remove(<user_defined.py>); raise ValueError("boom")
RemoveProgram ==
    Program(<<ImportNode(<< <<"o", "s">> >>, 1)>>,
            <<RemoveStep, RaiseStep("ValueError", "boom")>>)
\* import evil; print("a")
EvilProgram ==
    Program(<<ImportNode(<< <<"e", "v", "i", "l">> >>, 1)>>, <<PrintStep("a")>>)
\* print(eval("1"))
EvalProgram == Program(<<CallNode("eval", 3)>>, <<PrintStep("a")>>)
\* a source ruff reports a finding on
LintProgram ==
    Submission(<<>>, Source(<<>>), "finding", <<PrintStep("a")>>, "ok")
\* a source that does not parse
SyntaxProgram ==
    Submission(<<>>, [syntax_ok |-> FALSE, nodes |-> <<>>], "clean", <<>>, "ok")

Programs ==
    {PrintProgram, SilentProgram, RaiseProgram, ExitProgram, StderrProgram,
     SaveRaiseProgram, FlagProgram, OpenProgram, RemoveProgram, EvilProgram,
     EvalProgram, LintProgram, SyntaxProgram}

\* A query: its text does not parse as Python. engine: "ok" when the
\* query engine executes it, "error" when it raises.
Query(text, engine) ==
    Submission(<<SqlDecorator>> \o text,
               [syntax_ok |-> FALSE, nodes |-> <<>>], "clean", <<>>, engine)

\* after @sql:  FROM orders | FROM orders join items |
\*   FROM orders -- save_as: items | -- save_as: items |
\*   -- save_as: <line break> FROM orders
QueryTexts ==
    {<<"FROM", "orders">>,
     <<"FROM", "orders", "join", "items">>,
     <<"FROM", "orders", SaveMarker, "items">>,
     <<SaveMarker, "items">>,
     <<SaveMarker, Newline, "FROM", "orders">>}

Queries == {Query(t, e) : t \in QueryTexts, e \in {"ok", "error"}}

Submissions == Programs \cup Queries

\* Whether ruff can be started, or the temporary file written.
RuffOutcomes == {"runs", "nostart", "writefail"}

\* The submission writes a dataset.
WritesDataset(req) ==
    \/ IsSqlCode(req.text) /\ parse_sql_code(req.text).save_as # ""
    \/ \E i \in 1..Len(req.steps) : req.steps[i].op = "save"

\* Number of calls of POST /execute in a run.
MaxRuns == 2

ExecInit ==
    /\ file \in {Absent, File(<<Hdr, Blank>>)}
    /\ HistoryInit
    /\ procs = [p \in ProcIds |-> NoRequest]
    /\ ValidatorIdle
    /\ qtext = <<>>
    /\ qres = NoParse
    /\ catalog \in {[EmptyCatalog EXCEPT !["orders"] = o, !["items"] = i] :
                      o \in {NoDataset, Dataset(0)}, i \in {NoDataset, Dataset(0)}}
    /\ shared = {}
    /\ xreq = NoSubmission
    /\ xres = NoResponse
    /\ xpre = NoSnapshot
    /\ xprev = NoPrevious
    /\ runs = 0

\* POST /execute (main.py 271-357). The result of the n-th call is the
\* data n.
execute_code(req, ruff, io) ==
    LET data == runs + 1
        q == execute_sql(req.text, req.engine, catalog, io, data)
        r == ExecutePython(req, catalog, file, shared, ruff, io, data)
    IN  /\ runs < MaxRuns
        /\ runs' = runs + 1
        /\ xprev' = [req |-> xreq, res |-> xres, pre |-> xpre]
        /\ xpre' = Snapshot(catalog, file, shared, ruff, io)
        /\ xreq' = req
        /\ IF IsSqlCode(req.text)
           THEN /\ xres' = q.res
                /\ catalog' = q.catalog
                /\ UNCHANGED <<file, shared, tmp>>
           ELSE /\ xres' = r.res
                /\ catalog' = r.catalog
                /\ file' = r.file
                /\ shared' = r.shared
                /\ tmp' = (tmp \/ r.tmp)
        /\ UNCHANGED <<history, procs, vsrc, vres, query>>

Execute ==
    \E req \in Submissions :
        \E ruff \in (IF IsSqlCode(req.text) THEN {"runs"} ELSE RuffOutcomes),
           io \in (IF WritesDataset(req) THEN IoOutcomes ELSE {"ok"}) :
            execute_code(req, ruff, io)

ExecNext == Execute

SpecExec == ExecInit /\ [][ExecNext]_vars

\* ------------------------------------------------------------------------
\* Claims about POST /execute, checked under SpecExec
\* ------------------------------------------------------------------------
\* A call has been served; it was a query, or a Python submission.
Served == runs > 0
ServedQuery == Served /\ IsSqlCode(xreq.text)
ServedProgram == Served /\ ~IsSqlCode(xreq.text)

\* What validate answers to the submission served, ruff being as the call
\* found it.
Validation ==
    is_safe_code(xreq.src,
                 IF xpre.ruff = "runs" THEN xreq.lint ELSE xpre.ruff).verdict

\* The response execute gives to a rejected source.
RejectedResponse ==
    /\ ~xres.success
    /\ xres.error_type = "CodeValidationError"
    /\ xres.output = Reason(Validation)
    /\ ~xres.ran
    /\ ~xres.escaped

\* C11: if validate rejects the submitted source, execute returns
\* success=false with error_kind CodeValidationError and the validator's
\* reason as output, and the source is never compiled or run; no submitted
\* imperative code reaches the run step without a passing validation.
\* execute is the path of the endpoint that serves code; a text marked
\* @sql is served by runQuery.
C11_RejectedNeverRuns ==
    ServedProgram =>
        /\ ~Validation.ok => RejectedResponse
        /\ xres.ran => Validation.ok

C11_Witness ==
    /\ ServedProgram
    /\ xreq = EvilProgram
    /\ xpre.ruff = "runs"
    /\ RejectedResponse

\* C12: for every source that passes validation, execute returns an
\* ExecutionResult and never lets a failure escape to the caller, whatever
\* the code raises: the result then has success=false, the raised
\* exception's kind name as error_kind and its message as output.
C12_NeverEscapes ==
    (ServedProgram /\ Validation.ok) =>
        /\ ~xres.escaped
        /\ xres.raised # "" =>
              /\ ~xres.success
              /\ xres.error_type = xres.raised
              /\ xres.output # <<>>

\* Names that give file, process, environment or dynamic-evaluation
\* access.
DeniedNames == {"open", "eval", "exec", "__import__", "os"}

\* C13: the namespace presented to executed code resolves only the
\* enumerated safe builtins and handles to allow-listed modules: no name
\* giving file, process, environment, network or dynamic-evaluation access
\* is resolvable from executed code, so that a program naming one ends in
\* a NameError.
C13_NamespaceRestricted ==
    (ServedProgram /\ xres.ran) =>
        /\ DeniedNames \cap ExecNamespace(create_safe_globals) = {}
        /\ \A i \in 1..Len(xreq.steps) :
             (xreq.steps[i].op = "name" /\ xreq.steps[i].via \in DeniedNames)
                => xres.error_type = "NameError"

\* C14: calling execute(s) twice in the same process, with no change to
\* datasets or other external state in between, yields the same
\* ExecutionResult both times.
C14_Idempotent ==
    (/\ runs >= 2
     /\ ~IsSqlCode(xreq.text)
     /\ xreq = xprev.req
     /\ xpre.catalog = xprev.pre.catalog
     /\ xpre.file = xprev.pre.file
     /\ xpre.ruff = xprev.pre.ruff
     /\ xpre.io = xprev.pre.io)
    => xres = xprev.res

\* The referenced tables of the query served that have no dataset in the
\* catalog the call found.
MissingTables ==
    {n \in parse_sql_code(xreq.text).dataset_names : ~xpre.catalog[n].exists}

\* C16: when one or more referenced tables have no dataset in the catalog,
\* runQuery fails once with an error that lists every missing name, before
\* any dataset is loaded, any query is executed, or any result is
\* persisted.
C16_AllMissingListed ==
    (ServedQuery /\ MissingTables # {}) =>
        /\ ~xres.success
        /\ ~xres.escaped
        /\ xres.output = <<"Missing datasets:">>
        /\ xres.names = MissingTables
        /\ ~xres.loading
        /\ ~xres.ran
        /\ catalog = xpre.catalog

C16_Witness ==
    /\ ServedQuery
    /\ Cardinality(MissingTables) = 2
    /\ xres.names = MissingTables

\* C17: if the query carries a persistence directive and executes
\* successfully, its result is written to the catalog under exactly the
\* directive's name, replacing any dataset of that name; if the query
\* carries no directive, runQuery creates or changes no dataset.
C17_PersistUnderDirective ==
    ServedQuery =>
        /\ (xres.success /\ DirectiveName(xreq.text) # "") =>
              catalog = [xpre.catalog EXCEPT
                            ![DirectiveName(xreq.text)] = Dataset(runs)]
        /\ DirectiveName(xreq.text) = "" => catalog = xpre.catalog

\* The stages of runQuery after the datasets were found to exist.
EngineStages == {"sql_load", "sql_query", "sql_persist"}

\* C18: runQuery reports its failures under two distinguishable error
\* kinds: of two calls, one failing for a missing dataset and one failing
\* while loading, executing or persisting, the error kinds differ.
C18_DistinctErrorKinds ==
    (/\ runs >= 2
     /\ \/ xprev.res.stage = "sql_missing" /\ xres.stage \in EngineStages
        \/ xres.stage = "sql_missing" /\ xprev.res.stage \in EngineStages)
    => xres.error_type # xprev.res.error_type

\* C19: an execute or runQuery call that ends in a failure result leaves
\* the DatasetCatalog and the FunctionRepository artifact exactly as they
\* were before the call.
C19_FailureKeepsState ==
    (Served /\ ~xres.success /\ ~xres.escaped) =>
        /\ catalog = xpre.catalog
        /\ file = xpre.file

====
